---- MODULE Spec2Model ----
(***************************************************************************)
(* A model of scraper.py: ChronicleScraper (row expansion, the two-tier    *)
(* detail parser, pagination, the page loop of scrape_all) and main.       *)
(*                                                                         *)
(* Text is a sequence of atoms (an atom stands for a run of characters     *)
(* that the code never looks inside); the empty string is << >>.  An       *)
(* optional value is a sequence of length 0 (None) or 1.                   *)
(***************************************************************************)
EXTENDS Integers, Sequences, FiniteSets, TLC

VARIABLES
    pc,          \* position in main / scrape_all / the pure-function drivers
    cfg,         \* the run's inputs: expand_rows, max_pages, BEAUTIFULSOUP_AVAILABLE,
                 \* whether --email and --password are given
    env,         \* the site: its pages, rows, next controls, re-render behaviour,
                 \* its login form, and how many operations may throw during the run
    browser,     \* the live page: current page, DOM generation, opened rows
    page_num,    \* scrape_all: page_num
    all_data,    \* scrape_all: all_data
    page_done,   \* scrape_all: page_done
    data_rows,   \* scrape_all: data_rows (the handles of one query, with the rows
                 \* that were opened when it was made) and num_rows
    i,           \* scrape_all: index of the row-expansion loop
    faults,      \* exceptions thrown so far by operations that could have succeeded
    visit,       \* the page visit in progress: where all_data stood, which path ran,
                 \* the rows whose details read threw, the rows given to
                 \* expand_row, those for which it returned False, those
                 \* given to it more than once
    adv,         \* the last go_to_next_page call: candidates seen, clicks, result
    run,         \* main: data, what each export step received, close() calls, exit,
                 \* input() pauses, whether driver.get ran, export steps called,
                 \* the rows written to the CSV file
    cellIn,      \* detail parser driver: the td.details cell given
    parsed,      \* detail parser driver: structured result, whether the fallback
                 \* ran and its two buckets, merged result
    pagination,  \* get_total_pages driver: what the page shows
    total_pages, \* get_total_pages: its result (a sequence of length 0 before the call)
    rowIn,       \* expand_row driver: the row given, its state, the operations that throw
    expanded     \* expand_row driver: what the call did (a sequence of length 0 before it)

vars == <<pc, cfg, env, browser, page_num, all_data, page_done, data_rows, i,
          faults, visit, adv, run, cellIn, parsed, pagination, total_pages,
          rowIn, expanded>>

(***************************************************************************)
(* Bounds of the model.                                                    *)
(***************************************************************************)
MaxNodes == 4
MaxSitePages == 2
MaxFaults == 2
MaxLoopFaults == 1
MaxTotal == 301
MaxButtons == 3

(***************************************************************************)
(* Text: atoms and the str methods the code uses.                           *)
(***************************************************************************)
SP == " "
NL == "\n"
QUOTE == "quote"
COLON == ":"

Min(a, b) == IF a < b THEN a ELSE b

\* str.lower() on one atom
Lower(a) == IF a = "Status" THEN "status" ELSE a

RECURSIVE LStripSet(_, _)
LStripSet(s, set) ==
    IF s # << >> /\ Head(s) \in set THEN LStripSet(Tail(s), set) ELSE s

RECURSIVE RStripSet(_, _)
RStripSet(s, set) ==
    IF s # << >> /\ s[Len(s)] \in set
    THEN RStripSet(SubSeq(s, 1, Len(s) - 1), set) ELSE s

\* str.strip()
Strip(s) == RStripSet(LStripSet(s, {SP, NL}), {SP, NL})

\* str.strip('"')
StripQuotes(s) == RStripSet(LStripSet(s, {QUOTE}), {QUOTE})

\* str.startswith('"'), str.endswith('"')
StartsWithQuote(s) == s # << >> /\ s[1] = QUOTE
EndsWithQuote(s) == s # << >> /\ s[Len(s)] = QUOTE

\* 'Details' in text
HasDetails(s) == \E k \in 1..Len(s) : s[k] = "Details"

\* 'status:' in text.lower()
HasStatusColon(s) ==
    \E k \in 1..(Len(s) - 1) : Lower(s[k]) = "status" /\ s[k + 1] = COLON

\* ':' in text
HasColon(s) == \E k \in 1..Len(s) : s[k] = COLON

\* text.split(':', 1)[1]
AfterColon(s) ==
    LET k == CHOOSE j \in 1..Len(s) :
                 s[j] = COLON /\ \A m \in 1..(j - 1) : s[m] # COLON
    IN SubSeq(s, k + 1, Len(s))

\* text.split('\n')
RECURSIVE SplitLines(_)
SplitLines(s) ==
    IF \A k \in 1..Len(s) : s[k] # NL THEN << s >>
    ELSE LET k == CHOOSE j \in 1..Len(s) :
                      s[j] = NL /\ \A m \in 1..(j - 1) : s[m] # NL
         IN << SubSeq(s, 1, k - 1) >> \o SplitLines(SubSeq(s, k + 1, Len(s)))

\* sep.join(parts)
RECURSIVE JoinWith(_, _)
JoinWith(parts, sep) ==
    IF parts = << >> THEN << >>
    ELSE IF Len(parts) = 1 THEN parts[1]
    ELSE parts[1] \o << sep >> \o JoinWith(Tail(parts), sep)

\* [f(x) for x in seq if x], for the two shapes the code uses
RECURSIVE NonEmpty(_)
NonEmpty(seq) ==
    IF seq = << >> THEN << >>
    ELSE (IF Head(seq) # << >> THEN << Head(seq) >> ELSE << >>) \o NonEmpty(Tail(seq))

MapStrip(seq) == [k \in 1..Len(seq) |-> Strip(seq[k])]

(***************************************************************************)
(* The td.details cell: its child nodes in document order.  A node is a    *)
(* <b> tag, a <br>, a text node ("str") or any other tag ("tag"), with the *)
(* text it holds.                                                          *)
(***************************************************************************)
Node(k, t) == [k |-> k, t |-> t]

\* details_cell.find('b', string=lambda text: text and <test>): the index of
\* the first <b> whose string passes, 0 when there is none
FindBold(cell, wanted) ==
    LET Test(t) == IF wanted = "Details" THEN HasDetails(t) ELSE HasStatusColon(t)
        hits == {k \in 1..Len(cell) :
                    cell[k].k = "b" /\ cell[k].t # << >> /\ Test(cell[k].t)}
    IN IF hits = {} THEN 0 ELSE CHOOSE k \in hits : \A m \in hits : k <= m

\* the loop over details_bold.next_siblings: the text parts it collects
RECURSIVE DetailsParts(_)
DetailsParts(sibs) ==
    IF sibs = << >> THEN << >>
    ELSE LET n == Head(sibs)
             text == Strip(n.t)
         IN IF n.k = "br" THEN DetailsParts(Tail(sibs))
            ELSE IF n.k = "str"
            THEN (IF text # << >> /\ ~StartsWithQuote(text) /\ ~HasStatusColon(text)
                  THEN << StripQuotes(text) >> ELSE << >>)
                 \o DetailsParts(Tail(sibs))
            ELSE IF n.k = "b" /\ HasStatusColon(n.t) THEN << >>
            ELSE (IF text # << >> /\ ~HasStatusColon(text)
                  THEN << StripQuotes(text) >> ELSE << >>)
                 \o DetailsParts(Tail(sibs))

\* the structured Details section
StructuredDetails(cell) ==
    LET b == FindBold(cell, "Details")
    IN IF b = 0 THEN << >>
       ELSE Strip(JoinWith(DetailsParts(SubSeq(cell, b + 1, Len(cell))), SP))

\* the loop over status_bold.next_siblings: the first non-empty sibling text
RECURSIVE StatusSibling(_)
StatusSibling(sibs) ==
    IF sibs = << >> THEN << >>
    ELSE LET n == Head(sibs)
             text == StripQuotes(Strip(n.t))
         IN IF n.k = "br" THEN StatusSibling(Tail(sibs))
            ELSE IF text # << >> THEN text
            ELSE StatusSibling(Tail(sibs))

\* the structured State status section
StructuredStatus(cell) ==
    LET b == FindBold(cell, "status:")
    IN IF b = 0 THEN << >>
       ELSE LET inline == IF HasColon(cell[b].t)
                          THEN Strip(AfterColon(cell[b].t)) ELSE << >>
                sib == StatusSibling(SubSeq(cell, b + 1, Len(cell)))
            IN IF sib # << >> THEN sib ELSE inline

\* details_cell.get_text(separator='\n', strip=True), then the non-empty
\* stripped lines of it
CellStrings(cell) ==
    NonEmpty([k \in 1..Len(cell) |->
                 IF cell[k].k = "br" THEN << >> ELSE Strip(cell[k].t)])

FallbackLines(cell) ==
    NonEmpty(MapStrip(SplitLines(JoinWith(CellStrings(cell), NL))))

\* a line loop in which every line containing 'Details' is a marker
ClassifyLineAnyDetails(st, line) ==
    IF HasDetails(line)
    THEN [st EXCEPT !.in_details = TRUE, !.in_status = FALSE]
    ELSE IF HasStatusColon(line)
    THEN [st EXCEPT !.in_details = FALSE, !.in_status = TRUE,
                    !.status_parts =
                        IF HasColon(line)
                        THEN @ \o << StripQuotes(Strip(AfterColon(line))) >>
                        ELSE @]
    ELSE IF st.in_details /\ ~st.in_status
    THEN [st EXCEPT !.details_parts = @ \o << StripQuotes(line) >>]
    ELSE IF st.in_status
    THEN [st EXCEPT !.status_parts = @ \o << StripQuotes(line) >>]
    ELSE st

\* one iteration of the fallback's line loop; st holds in_details, in_status,
\* details_parts and status_parts
ClassifyLine(st, line) ==
    IF HasDetails(line) /\ ~st.in_details
    THEN [st EXCEPT !.in_details = TRUE, !.in_status = FALSE]
    ELSE IF HasStatusColon(line)
    THEN [st EXCEPT !.in_details = FALSE, !.in_status = TRUE,
                    !.status_parts =
                        IF HasColon(line)
                        THEN @ \o << StripQuotes(Strip(AfterColon(line))) >>
                        ELSE @]
    ELSE IF st.in_details /\ ~st.in_status
    THEN [st EXCEPT !.details_parts = @ \o << StripQuotes(line) >>]
    ELSE IF st.in_status
    THEN [st EXCEPT !.status_parts = @ \o << StripQuotes(line) >>]
    ELSE st

RECURSIVE ClassifyLines(_, _)
ClassifyLines(st, lines) ==
    IF lines = << >> THEN st
    ELSE ClassifyLines(ClassifyLine(st, Head(lines)), Tail(lines))

FallbackParts(cell) ==
    ClassifyLines([in_details |-> FALSE, in_status |-> FALSE,
                   details_parts |-> << >>, status_parts |-> << >>],
                  FallbackLines(cell))

\* the merge without its "not details" test: the fallback overwrites
MergeFieldOverwrite(structured, parts) ==
    IF parts # << >> THEN JoinWith(parts, SP) ELSE structured

\* "if not details and details_parts: details = ' '.join(details_parts)"
MergeField(structured, parts) ==
    IF structured = << >> /\ parts # << >> THEN JoinWith(parts, SP) ELSE structured

\* the detail extraction of extract_row_data_from_soup on a td.details cell
ParseDetails(cell) ==
    LET sd == StructuredDetails(cell)
        ss == StructuredStatus(cell)
        ran == sd = << >> \/ ss = << >>
        fb == FallbackParts(cell)
    IN [sd |-> sd, ss |-> ss, ran |-> ran,
        fd |-> IF ran THEN fb.details_parts ELSE << >>,
        fs |-> IF ran THEN fb.status_parts ELSE << >>,
        details |-> IF ran THEN MergeField(sd, fb.details_parts) ELSE sd,
        state_status |-> IF ran THEN MergeField(ss, fb.status_parts) ELSE ss]

(***************************************************************************)
(* The Selenium detail parser of extract_row_data: it reads the rendered   *)
(* text of the cell (inline nodes run together, a <br> breaks the line, a  *)
(* newline of the markup renders as a space).                              *)
(***************************************************************************)
RenderAtoms(t) == [k \in 1..Len(t) |-> IF t[k] = NL THEN SP ELSE t[k]]

RECURSIVE RenderText(_)
RenderText(cell) ==
    IF cell = << >> THEN << >>
    ELSE (IF Head(cell).k = "br" THEN << NL >> ELSE RenderAtoms(Head(cell).t))
         \o RenderText(Tail(cell))

\* one iteration of the line loop of extract_row_data
SeleniumLine(st, raw) ==
    LET line == Strip(raw)
    IN IF line = << >> \/ line = << "Details" >> THEN st
       ELSE IF HasStatusColon(line)
       THEN [st EXCEPT !.in_status = TRUE,
                       !.state_status = IF HasColon(line)
                                        THEN Strip(AfterColon(line)) ELSE @]
       ELSE IF st.in_status
       THEN (IF ~StartsWithQuote(line)
             THEN [st EXCEPT !.status_lines = @ \o << line >>]
             ELSE IF EndsWithQuote(line)
             THEN [st EXCEPT !.state_status = StripQuotes(line)]
             ELSE st)
       ELSE (IF StartsWithQuote(line) /\ EndsWithQuote(line)
             THEN [st EXCEPT !.details = StripQuotes(line)]
             ELSE [st EXCEPT !.details_lines = @ \o << line >>])

RECURSIVE SeleniumLines(_, _)
SeleniumLines(st, lines) ==
    IF lines = << >> THEN st
    ELSE SeleniumLines(SeleniumLine(st, Head(lines)), Tail(lines))

SeleniumDetails(cell) ==
    LET st == SeleniumLines([in_status |-> FALSE, details |-> << >>,
                             state_status |-> << >>, details_lines |-> << >>,
                             status_lines |-> << >>],
                            SplitLines(Strip(RenderText(cell))))
    IN [details |-> MergeField(st.details, st.details_lines),
        state_status |-> MergeField(st.state_status, st.status_lines)]

(***************************************************************************)
(* Rows and Records.  A row has an id ("" when it has none), its class,    *)
(* the text of each td, the anchors of the source cell (each the href it   *)
(* carries, << >> for an anchor without one), the toggle control of its    *)
(* first cell, and its detail block (at most one td.details cell), which   *)
(* is in the DOM once the row is opened.                                   *)
(***************************************************************************)
NoRecord == << >>

\* cells[k].get_text(strip=True) / cells[k].text.strip(), "" past the last cell
CellText(row, k) == IF Len(row.cells) > k THEN Strip(row.cells[k + 1]) ELSE << >>

\* cells[3].find_all('a', href=True), then link['href'] of each
RECURSIVE Hrefs(_)
Hrefs(anchors) ==
    IF anchors = << >> THEN << >>
    ELSE Head(anchors) \o Hrefs(Tail(anchors))

\* source_links with repeated hrefs collapsed
RECURSIVE Dedup(_)
Dedup(seq) ==
    IF seq = << >> THEN << >>
    ELSE LET front == Dedup(SubSeq(seq, 1, Len(seq) - 1))
             last == seq[Len(seq)]
         IN IF \E k \in 1..Len(front) : front[k] = last THEN front
            ELSE front \o << last >>

SourceLinksDedup(row) ==
    IF Len(row.cells) > 3 THEN Dedup(Hrefs(row.anchors)) ELSE << >>

SourceLinks(row) == IF Len(row.cells) > 3 THEN Hrefs(row.anchors) ELSE << >>

MakeRecord(row, d) ==
    [institution |-> CellText(row, 0), state |-> CellText(row, 1),
     impacts |-> CellText(row, 2), source |-> CellText(row, 3),
     source_links |-> SourceLinks(row),
     details |-> d.details, state_status |-> d.state_status,
     row_id |-> row.id]

NoDetails == [details |-> << >>, state_status |-> << >>]

\* extract_row_data_from_soup with the cell test off by one: len(cells) < 2
ExtractRowDataFromSoupTwoCells(row, detail) ==
    IF row.id = "" THEN NoRecord
    ELSE IF Len(row.cells) < 2 THEN NoRecord
    ELSE << MakeRecord(row, NoDetails) >>

\* extract_row_data_from_soup giving up on a row without a details row
ExtractRowDataFromSoupNeedsDetail(row, detail) ==
    IF row.id = "" THEN NoRecord
    ELSE IF Len(row.cells) < 3 THEN NoRecord
    ELSE IF detail = << >> THEN NoRecord
    ELSE << MakeRecord(row, LET r == ParseDetails(detail[1])
                            IN [details |-> r.details,
                                state_status |-> r.state_status]) >>

\* extract_row_data_from_soup(row_soup, details_row_soup): detail is the
\* td.details cell of the details row found in the soup, << >> when none
ExtractRowDataFromSoup(row, detail) ==
    IF row.id = "" THEN NoRecord
    ELSE IF Len(row.cells) < 3 THEN NoRecord
    ELSE << MakeRecord(row, IF detail = << >> THEN NoDetails
                            ELSE LET r == ParseDetails(detail[1])
                                 IN [details |-> r.details,
                                     state_status |-> r.state_status]) >>

\* the Selenium part of extract_row_data (lines 469-545)
SeleniumExtract(row, detail, stale) ==
    IF stale THEN NoRecord
    ELSE IF row.id = "" THEN NoRecord
    ELSE IF Len(row.cells) < 3 THEN NoRecord
    ELSE << MakeRecord(row, IF detail = << >> THEN NoDetails
                            ELSE SeleniumDetails(detail[1])) >>

\* extract_row_data(row_element): bs is BEAUTIFULSOUP_AVAILABLE, soupOk
\* whether parse_html_with_beautifulsoup returns a soup on this call
ExtractRowData(row, detail, stale, bs, soupOk) ==
    IF bs /\ ~stale /\ row.id # "" /\ soupOk
    THEN ExtractRowDataFromSoup(row, detail)
    ELSE SeleniumExtract(row, detail, stale)

(***************************************************************************)
(* expand_row: ops is the set of browser operations that throw during the  *)
(* call ("scroll", "toggle", "cell", "row").  The result says what was     *)
(* returned, which click was dispatched successfully, whether the row was  *)
(* scrolled, and which operations threw.                                   *)
(***************************************************************************)
ExpandResult(ret, click, scrolled, threw) ==
    [ret |-> ret, click |-> click, scrolled |-> scrolled, threw |-> threw]

\* expand_row without its 'opened' test
ExpandRowIgnoringOpened(row, stale, opened, ops) ==
    IF stale THEN ExpandResult(FALSE, "none", FALSE, {})
    ELSE IF "scroll" \in ops THEN ExpandResult(FALSE, "none", FALSE, {"scroll"})
    ELSE IF Len(row.cells) > 0 /\ row.toggle = "visible"
    THEN (IF "toggle" \in ops
          THEN ExpandResult(FALSE, "none", TRUE, {"toggle"})
          ELSE ExpandResult(TRUE, "toggle", TRUE, {}))
    ELSE IF Len(row.cells) > 0 /\ "cell" \notin ops
    THEN ExpandResult(TRUE, "cell", TRUE, {})
    ELSE LET cellThrew == IF Len(row.cells) > 0 THEN {"cell"} ELSE {}
         IN IF "row" \notin ops
            THEN ExpandResult(TRUE, "row", TRUE, cellThrew)
            ELSE ExpandResult(FALSE, "none", TRUE, cellThrew \cup {"row"})

ExpandRow(row, stale, opened, ops) ==
    IF stale THEN ExpandResult(FALSE, "none", FALSE, {})
    ELSE IF opened THEN ExpandResult(TRUE, "none", FALSE, {})
    ELSE IF "scroll" \in ops THEN ExpandResult(FALSE, "none", FALSE, {"scroll"})
    ELSE IF Len(row.cells) > 0 /\ row.toggle = "visible"
    THEN (IF "toggle" \in ops
          THEN ExpandResult(FALSE, "none", TRUE, {"toggle"})
          ELSE ExpandResult(TRUE, "toggle", TRUE, {}))
    ELSE IF Len(row.cells) > 0 /\ "cell" \notin ops
    THEN ExpandResult(TRUE, "cell", TRUE, {})
    ELSE LET cellThrew == IF Len(row.cells) > 0 THEN {"cell"} ELSE {}
         IN IF "row" \notin ops
            THEN ExpandResult(TRUE, "row", TRUE, cellThrew)
            ELSE ExpandResult(FALSE, "none", TRUE, cellThrew \cup {"row"})

ExpandOps == SUBSET {"scroll", "toggle", "cell", "row"}

(***************************************************************************)
(* get_total_pages: el says whether the pagination summary element is      *)
(* found, of is the number the pattern 'of N' captures in its text (<< >>  *)
(* when the pattern does not match), buttons the number of page buttons.   *)
(***************************************************************************)
ItemsPerPage == 25

\* get_total_pages rounding down
GetTotalPagesFloor(p) ==
    IF p.el /\ p.of # << >> THEN p.of[1] \div ItemsPerPage
    ELSE IF p.buttons > 0 THEN p.buttons
    ELSE 1

GetTotalPages(p) ==
    IF p.el /\ p.of # << >>
    THEN (p.of[1] \div ItemsPerPage) + (IF p.of[1] % ItemsPerPage > 0 THEN 1 ELSE 0)
    ELSE IF p.buttons > 0 THEN p.buttons
    ELSE 1

(***************************************************************************)
(* go_to_next_page: cands are the located candidates in order, each        *)
(* "enabled" or "disabled"; throwing is the set of candidates whose click  *)
(* throws.  The result counts the clicks dispatched and names the          *)
(* candidate whose click went through (0: none, False is returned).        *)
(***************************************************************************)
RECURSIVE TryCandidates(_, _, _, _)
TryCandidates(cands, throwing, k, clicks) ==
    IF k > Len(cands) THEN [clicks |-> clicks, hit |-> 0]
    ELSE IF cands[k] # "enabled" THEN TryCandidates(cands, throwing, k + 1, clicks)
    ELSE IF k \in throwing THEN TryCandidates(cands, throwing, k + 1, clicks + 1)
    ELSE [clicks |-> clicks + 1, hit |-> k]

\* go_to_next_page without the is_enabled() test
GoToNextPageNoEnabledTest(cands, throwing) ==
    TryCandidates([k \in 1..Len(cands) |-> "enabled"], throwing, 1, 0)

GoToNextPage(cands, throwing) == TryCandidates(cands, throwing, 1, 0)

(***************************************************************************)
(* The sites the runs are checked on.                                      *)
(***************************************************************************)
CellA == << Node("b", << "Details" >>), Node("str", << SP, "a", SP >>),
            Node("br", << >>), Node("str", << QUOTE, "b", QUOTE >>),
            Node("b", << "State", SP, "Status", COLON >>),
            Node("str", << SP, "y" >>) >>

CellB == << Node("str", << "Details", NL, "c" >>),
            Node("tag", << "State", SP, "status", COLON, SP, "z" >>) >>

Row(id, cls, cells, anchors, toggle, detail) ==
    [id |-> id, cls |-> cls, cells |-> cells, anchors |-> anchors,
     toggle |-> toggle, detail |-> detail]

RowA == Row("228", "result", << << "i1" >>, << "s1" >>, << "m1" >>, << "src" >> >>,
            << << "u1" >>, << "u1" >> >>, "visible", << CellA >>)
RowB == Row("229", "result", << << "i2" >>, << "s2" >>, << SP, "m2" >> >>,
            << >>, "none", << >>)
RowC == Row("", "result", << << "i3" >>, << "s3" >>, << "m3" >>, << "src" >> >>,
            << << "u2" >> >>, "hidden", << >>)
RowD == Row("230", "result", << << "i4" >>, << "s4" >> >>,
            << >>, "none", << >>)
RowE == Row("231", "result", << << "i5" >>, << "s5" >>, << "m5" >>, << "src" >> >>,
            << << >>, << "u2" >>, << "u1" >>, << "u2" >> >>, "hidden", << CellB >>)
RowF == Row("232", "other", << << "i6" >>, << "s6" >>, << "m6" >>, << "src" >> >>,
            << << "u1" >> >>, "visible", << >>)

RowG == Row("233", "result", << << "i7" >>, << "s7" >>, << "m7" >>, << "src" >> >>,
            << << "u1" >> >>, "visible", << >>)

\* a row without cells
RowH == Row("234", "result", << >>, << >>, "none", << >>)

\* str.isdigit() on a row id
IsDigit(id) == id \in {"228", "229", "230", "231", "232", "233"}

Page(hasTable, rows) == [hasTable |-> hasTable, rows |-> rows]

PageA == Page(TRUE, << RowA, RowD, RowB >>)
PageB == Page(TRUE, << RowC, RowE >>)
PageC == Page(TRUE, << RowF >>)
PageD == Page(TRUE, << RowG, RowD >>)
PageN == Page(FALSE, << >>)

SeqsUpTo(S, n) == UNION {[1..k -> S] : k \in 1..n}

\* a site whose last page offers no enabled next control
\* the login form of the site: which of the elements login() looks for exist
Forms == [email : BOOLEAN, password : BOOLEAN, submit : BOOLEAN]

FullForm == [email |-> TRUE, password |-> TRUE, submit |-> TRUE]

FiniteSites ==
    {[pages |-> ps, midNext |-> << "disabled", "enabled" >>, lastNext |-> ln,
      rerender |-> rr, budget |-> MaxFaults, form |-> FullForm] :
        ps \in SeqsUpTo({PageA, PageB, PageC, PageN}, MaxSitePages),
        ln \in {<< >>, << "disabled", "disabled" >>},
        rr \in BOOLEAN}

\* one-page sites with every login form
LoginSites ==
    {[pages |-> ps, midNext |-> << >>, lastNext |-> << "disabled" >>,
      rerender |-> FALSE, budget |-> MaxFaults, form |-> f] :
        ps \in {<< PageA >>, << PageN >>}, f \in Forms}

\* a site whose next control is enabled on every page (the last page leads
\* back to the first)
EndlessSites ==
    {[pages |-> ps, midNext |-> << "enabled" >>, lastNext |-> ln,
      rerender |-> FALSE, budget |-> MaxLoopFaults, form |-> FullForm] :
        ps \in {<< PageD >>, << PageN >>, << PageC, PageN >>},
        ln \in {<< "disabled", "enabled" >>}}

(***************************************************************************)
(* The live page.                                                          *)
(***************************************************************************)
CurPage == env.pages[browser.cur]

\* the candidates go_to_next_page locates on the current page
NextCands == IF browser.cur < Len(env.pages) THEN env.midNext ELSE env.lastNext

\* driver.find_elements(By.CSS_SELECTOR, "tr.result"): the positions of the
\* matching rows in the page, in document order
RECURSIVE ResultRowsFrom(_, _)
ResultRowsFrom(rows, k) ==
    IF k > Len(rows) THEN << >>
    ELSE (IF rows[k].cls = "result" THEN << k >> ELSE << >>)
         \o ResultRowsFrom(rows, k + 1)

FindResultRows ==
    [gen |-> browser.gen, idx |-> ResultRowsFrom(CurPage.rows, 1),
     seen |-> browser.opened]

\* handles come from a query made after the most recent expand action when
\* no row was opened since the query
QueriedAfterExpansion(handles) == handles.seen = browser.opened

\* a handle is stale once the DOM it was fetched from has been replaced
Stale(handles) == handles.gen # browser.gen

\* the effect of a dispatched click on row k
Clicked(k) ==
    [browser EXCEPT !.opened = @ \cup {k},
                    !.gen = IF env.rerender THEN @ + 1 ELSE @]

\* the effect of a click on an enabled next control
Navigated ==
    [cur |-> IF browser.cur < Len(env.pages) THEN browser.cur + 1 ELSE 1,
     gen |-> browser.gen + 1, opened |-> {}]

(***************************************************************************)
(* Record extraction over the rows of one page.                            *)
(***************************************************************************)
\* soup.find_all('tr', class_=...'result'...), or, when that finds nothing,
\* every tr with a numeric id and 4 or more td
RECURSIVE IdRowsFrom(_, _)
IdRowsFrom(rows, k) ==
    IF k > Len(rows) THEN << >>
    ELSE (IF rows[k].id # "" /\ Len(rows[k].cells) >= 4 /\ IsDigit(rows[k].id)
          THEN << k >> ELSE << >>)
         \o IdRowsFrom(rows, k + 1)

SoupResultRows ==
    LET byClass == ResultRowsFrom(CurPage.rows, 1)
    IN IF byClass # << >> THEN byClass ELSE IdRowsFrom(CurPage.rows, 1)

\* the details row of row k of a page whose opened rows are given
DetailIn(page, opened, k) == IF k \in opened THEN page.rows[k].detail ELSE << >>

\* the loop over result_rows of the page-wide soup pass (lines 720-730)
RECURSIVE SoupRecords(_, _, _)
SoupRecords(page, opened, idx) ==
    IF idx = << >> THEN << >>
    ELSE LET row == page.rows[Head(idx)]
         IN (IF row.id # ""
             THEN ExtractRowDataFromSoup(row, DetailIn(page, opened, Head(idx)))
             ELSE << >>)
            \o SoupRecords(page, opened, Tail(idx))

\* the loop over data_rows with one soup for the page (lines 768-780): a
\* stale handle throws at get_attribute and the row is skipped
RECURSIVE FallbackSoupRecords(_, _, _, _)
FallbackSoupRecords(page, opened, idx, stale) ==
    IF idx = << >> THEN << >>
    ELSE LET row == page.rows[Head(idx)]
         IN (IF ~stale /\ row.id # ""
             THEN ExtractRowDataFromSoup(row, DetailIn(page, opened, Head(idx)))
             ELSE << >>)
            \o FallbackSoupRecords(page, opened, Tail(idx), stale)

\* the loops that call extract_row_data on each row (lines 784-800);
\* noSoup is the set of rows for which the per-row page parse fails
RECURSIVE PerRowRecords(_, _, _, _, _, _)
PerRowRecords(page, opened, idx, stale, bs, noSoup) ==
    IF idx = << >> THEN << >>
    ELSE ExtractRowData(page.rows[Head(idx)], DetailIn(page, opened, Head(idx)),
                        stale, bs, Head(idx) \notin noSoup)
         \o PerRowRecords(page, opened, Tail(idx), stale, bs, noSoup)

\* the rows for which extract_row_data parses the page
ParsedRows(idx, stale, bs) ==
    {idx[k] : k \in {j \in 1..Len(idx) :
                        bs /\ ~stale /\ CurPage.rows[idx[j]].id # ""}}

(***************************************************************************)
(* The page caps of scrape_all.                                            *)
(***************************************************************************)
HardCap == 20
PageNumBound == 24

\* the page cap compared one page late
ReachedMaxPagesLate(pn) == cfg.max_pages # << >> /\ pn > cfg.max_pages[1] + 1

\* the hard cap compared one page late, and the hard cap never reached
ReachedHardCapLate(pn) == pn > HardCap + 1
NeverReachedHardCap(pn) == FALSE

\* "max_pages is not None and page_num > max_pages"
ReachedMaxPages(pn) == cfg.max_pages # << >> /\ pn > cfg.max_pages[1]

\* "page_num > 20"
ReachedHardCap(pn) == pn > HardCap

(***************************************************************************)
(* Initial states.                                                         *)
(***************************************************************************)
\* the expand_row driver is idle
NoRowIn == [row |-> RowB, stale |-> FALSE, opened |-> FALSE, ops |-> {}]

NoParse == [sd |-> << >>, ss |-> << >>, ran |-> FALSE, fd |-> << >>, fs |-> << >>,
            details |-> << >>, state_status |-> << >>]

NoRun == [data |-> << >>, display |-> << >>, csv |-> << >>, json |-> << >>,
          excel |-> << >>, closed |-> 0, exit |-> "none", paused |-> 0,
          got |-> FALSE, tried |-> {}, csvfile |-> << >>]

\* the state after ChronicleScraper(...) is constructed in main
Constructed ==
    /\ browser = [cur |-> 1, gen |-> 0, opened |-> {}]
    /\ page_num = 0
    /\ all_data = << >>
    /\ page_done = FALSE
    /\ data_rows = [gen |-> 0, idx |-> << >>, seen |-> {}]
    /\ i = 0
    /\ faults = 0
    /\ visit = [n |-> 0, start |-> 0, path |-> "none", dthrew |-> {},
                xtried |-> {}, xfailed |-> {}, xagain |-> {}]
    /\ adv = [n |-> 0, cands |-> << >>, clicks |-> 0, ok |-> FALSE]
    /\ run = NoRun
    /\ parsed = NoParse
    /\ total_pages = << >>
    /\ expanded = << >>

Init ==
    /\ pc = "main"
    /\ cfg \in [expand_rows : BOOLEAN, bs : BOOLEAN, max_pages : {<< >>, << 1 >>},
                credentials : {FALSE}]
    /\ env \in FiniteSites
    /\ pagination = [el |-> TRUE, of |-> << ItemsPerPage * Len(env.pages) >>,
                     buttons |-> 0]
    /\ cellIn = << >>
    /\ rowIn = NoRowIn
    /\ Constructed

\* main on a one-page site, with and without credentials
InitLogin ==
    /\ pc = "main"
    /\ cfg \in [expand_rows : BOOLEAN, bs : BOOLEAN, max_pages : {<< >>},
                credentials : BOOLEAN]
    /\ env \in LoginSites
    /\ pagination = [el |-> TRUE, of |-> << ItemsPerPage >>, buttons |-> 0]
    /\ cellIn = << >>
    /\ rowIn = NoRowIn
    /\ Constructed

InitLoop ==
    /\ pc = "main"
    /\ cfg \in [expand_rows : BOOLEAN, bs : BOOLEAN,
                max_pages : {<< >>, << 1 >>, << HardCap + 1 >>},
                credentials : {FALSE}]
    /\ env \in EndlessSites
    /\ pagination \in {[el |-> TRUE, of |-> << 3 * ItemsPerPage >>, buttons |-> 0],
                       [el |-> FALSE, of |-> << >>, buttons |-> 0]}
    /\ cellIn = << >>
    /\ rowIn = NoRowIn
    /\ Constructed

(***************************************************************************)
(* main and scrape_all, step by step.                                      *)
(***************************************************************************)
inputs == <<cfg, env, cellIn, pagination, rowIn>>

\* n exceptions thrown by browser or file operations that could have gone
\* through: at most env.budget of them in a run
Throws(n) == faults + n <= env.budget /\ faults' = faults + n

\* login(email, password) once driver.get has returned: the number of
\* input() pauses it makes.  A missing email field pauses and returns; a
\* missing password field raises NoSuchElementException, which the except
\* clause of login logs; a missing submit button pauses
LoginPauses(form) ==
    IF ~form.email THEN 1
    ELSE IF ~form.password THEN 0
    ELSE IF ~form.submit THEN 1
    ELSE 0

\* main: login(email, password) with credentials, input() without
\* (lines 1012-1016)
MainLogin ==
    /\ pc = "main"
    /\ \/ /\ ~cfg.credentials
          /\ run' = [run EXCEPT !.paused = @ + 1]
          /\ pc' = "scrape_start"
          /\ UNCHANGED faults
       \/ /\ cfg.credentials
          /\ run' = [run EXCEPT !.got = TRUE, !.paused = @ + LoginPauses(env.form)]
          /\ pc' = "scrape_start"
          /\ UNCHANGED faults
       \/ \* an operation inside the try of login throws: logged, no pause
          /\ cfg.credentials
          /\ Throws(1)
          /\ run' = [run EXCEPT !.got = TRUE]
          /\ pc' = "scrape_start"
       \/ \* driver.get throws: the exception leaves login
          /\ cfg.credentials
          /\ Throws(1)
          /\ run' = [run EXCEPT !.exit = "exception"]
          /\ pc' = "finally"
    /\ UNCHANGED <<inputs, browser, page_num, all_data, page_done, data_rows,
                   i, visit, adv, parsed, expanded, total_pages>>

\* scrape_all up to the loop: all_data = [], wait_for_table, get_total_pages,
\* page_num = 1; wait_for_table catches only TimeoutException, so any other
\* exception of its wait leaves scrape_all
ScrapeStart ==
    /\ pc = "scrape_start"
    /\ all_data' = << >>
    /\ \/ /\ total_pages' = << GetTotalPages(pagination) >>
          /\ page_num' = 1
          /\ pc' = "page"
          /\ UNCHANGED <<faults, run>>
       \/ /\ Throws(1)
          /\ run' = [run EXCEPT !.exit = "exception"]
          /\ pc' = "finally"
          /\ UNCHANGED <<total_pages, page_num>>
    /\ UNCHANGED <<inputs, browser, page_done, data_rows, i, visit, adv,
                   parsed, expanded>>

\* the head of one loop iteration: page_done = False and the choice of path
PageStart ==
    /\ pc = "page"
    /\ page_done' = FALSE
    /\ visit' = [n |-> visit.n + 1, start |-> Len(all_data), path |-> "none",
                 dthrew |-> {}, xtried |-> {}, xfailed |-> {}, xagain |-> {}]
    /\ pc' = IF cfg.bs /\ cfg.expand_rows THEN "soup_wait" ELSE "fb_wait"
    /\ UNCHANGED <<inputs, browser, page_num, all_data, data_rows, i, faults,
                   adv, run, parsed, expanded, total_pages>>

\* soup pass: wait for the table and query the rows (lines 686-696); a
\* timeout leaves the pass through its except clause
SoupWait ==
    /\ pc = "soup_wait"
    /\ \/ /\ CurPage.hasTable
          /\ data_rows' = FindResultRows
          /\ i' = 0
          /\ pc' = "soup_expand"
          /\ UNCHANGED <<faults, page_done>>
       \/ /\ IF CurPage.hasTable THEN Throws(1) ELSE UNCHANGED faults
          /\ page_done' = FALSE
          /\ pc' = "fb_wait"
          /\ UNCHANGED <<data_rows, i>>
    /\ UNCHANGED <<inputs, browser, page_num, all_data, visit, adv, run,
                   parsed, expanded, total_pages>>

\* a row-expansion loop that stops at the first row expand_row fails on
ExpandOneOrStop ==
    /\ i < Len(data_rows.idx)
    /\ \E ops \in ExpandOps, gone \in BOOLEAN :
          LET rows == FindResultRows
              k == rows.idx[i + 1]
              r == ExpandRow(CurPage.rows[k], Stale(rows) \/ gone,
                             k \in browser.opened, ops)
          IN /\ i < Len(rows.idx)
             /\ ops = r.threw
             /\ Throws(Cardinality(ops) + (IF gone THEN 1 ELSE 0))
             /\ browser' = IF r.click # "none" THEN Clicked(k) ELSE browser
             /\ visit' = [visit EXCEPT !.xtried = @ \cup {k},
                                       !.xfailed = IF r.ret THEN @ ELSE @ \cup {k},
                                       !.xagain = @ \cup ({k} \cap visit.xtried)]
             /\ i' = IF r.ret THEN i + 1 ELSE Len(data_rows.idx)
    /\ UNCHANGED <<pc, inputs, page_num, all_data, page_done, data_rows, adv, run,
                   parsed, expanded, total_pages>>

\* one iteration of a row-expansion loop: re-query the rows, expand_row(rows[i]).
\* gone: the handle went stale between the query and the call, so that
\* get_attribute throws inside expand_row
ExpandOne ==
    /\ i < Len(data_rows.idx)
    /\ \E ops \in ExpandOps, gone \in BOOLEAN :
          LET rows == FindResultRows
              k == rows.idx[i + 1]
              r == ExpandRow(CurPage.rows[k], Stale(rows) \/ gone,
                             k \in browser.opened, ops)
          IN /\ i < Len(rows.idx)
             /\ ops = r.threw
             /\ Throws(Cardinality(ops) + (IF gone THEN 1 ELSE 0))
             /\ browser' = IF r.click # "none" THEN Clicked(k) ELSE browser
             /\ visit' = [visit EXCEPT !.xtried = @ \cup {k},
                                       !.xfailed = IF r.ret THEN @ ELSE @ \cup {k},
                                       !.xagain = @ \cup ({k} \cap visit.xtried)]
    /\ i' = i + 1
    /\ UNCHANGED <<pc, inputs, page_num, all_data, page_done, data_rows, adv, run,
                   parsed, expanded, total_pages>>

\* soup pass: the expansion loop (lines 697-706)
SoupExpandRow == pc = "soup_expand" /\ ExpandOne

\* soup pass: parse the page once and extract every row (lines 708-738)
SoupParse ==
    /\ pc = "soup_expand"
    /\ i = Len(data_rows.idx)
    /\ \/ /\ LET records == SoupRecords(CurPage, browser.opened, SoupResultRows)
             IN all_data' = all_data \o records
          /\ page_done' = TRUE
          /\ visit' = [visit EXCEPT !.path = "soup"]
          /\ pc' = "advance"
          /\ UNCHANGED faults
       \/ /\ Throws(1)
          /\ page_done' = FALSE
          /\ pc' = "fb_wait"
          /\ UNCHANGED <<all_data, visit>>
    /\ UNCHANGED <<inputs, browser, page_num, data_rows, i, adv, run, parsed,
                   expanded, total_pages>>

\* a fallback whose failure ends the page loop
FallbackWaitEndsLoop ==
    /\ pc = "fb_wait"
    /\ \/ /\ CurPage.hasTable
          /\ data_rows' = FindResultRows
          /\ i' = 0
          /\ pc' = IF cfg.expand_rows THEN "fb_expand" ELSE "fb_extract"
          /\ UNCHANGED <<faults, visit>>
       \/ /\ IF CurPage.hasTable THEN Throws(1) ELSE UNCHANGED faults
          /\ visit' = [visit EXCEPT !.path = "failed"]
          /\ pc' = "scrape_done"
          /\ UNCHANGED <<data_rows, i>>
    /\ UNCHANGED <<inputs, browser, page_num, all_data, page_done, adv, run,
                   parsed, expanded, total_pages>>

\* fallback: wait for the table and query the rows (lines 740-752); a
\* timeout ends the page
FallbackWait ==
    /\ pc = "fb_wait"
    /\ \/ /\ CurPage.hasTable
          /\ data_rows' = FindResultRows
          /\ i' = 0
          /\ pc' = IF cfg.expand_rows THEN "fb_expand" ELSE "fb_extract"
          /\ UNCHANGED <<faults, visit>>
       \/ /\ IF CurPage.hasTable THEN Throws(1) ELSE UNCHANGED faults
          /\ visit' = [visit EXCEPT !.path = "failed"]
          /\ pc' = "advance"
          /\ UNCHANGED <<data_rows, i>>
    /\ UNCHANGED <<inputs, browser, page_num, all_data, page_done, adv, run,
                   parsed, expanded, total_pages>>

\* fallback: the expansion loop (lines 753-761)
FallbackExpandRow == pc = "fb_expand" /\ ExpandOne

\* the rows whose details row the Selenium part of extract_row_data reads
\* through the driver (lines 491-495), given the rows that get no soup
DetailReads(idx, stale, bs, noSoup) ==
    {idx[k] : k \in {j \in 1..Len(idx) :
        LET row == CurPage.rows[idx[j]]
        IN /\ ~stale /\ row.id # "" /\ Len(row.cells) >= 3
           /\ DetailIn(CurPage, browser.opened, idx[j]) # << >>
           /\ (~bs \/ idx[j] \in noSoup)}}

\* fallback: extract the rows held in data_rows (lines 764-802).  A details
\* read that throws (lines 527-530) leaves the row's details and
\* state_status empty, as a details row that is not there does
FallbackExtract ==
    /\ pc = "fb_extract" \/ (pc = "fb_expand" /\ i = Len(data_rows.idx))
    /\ \/ /\ cfg.bs
          /\ LET records == FallbackSoupRecords(CurPage, browser.opened,
                                                data_rows.idx, Stale(data_rows))
             IN all_data' = all_data \o records
          /\ visit' = [visit EXCEPT !.path = "fallback"]
          /\ UNCHANGED faults
       \/ /\ cfg.bs
          /\ \E noSoup \in SUBSET ParsedRows(data_rows.idx, Stale(data_rows), TRUE) :
             \E dthrew \in SUBSET DetailReads(data_rows.idx, Stale(data_rows),
                                              TRUE, noSoup) :
                LET records == PerRowRecords(CurPage, browser.opened \ dthrew,
                                             data_rows.idx, Stale(data_rows),
                                             TRUE, noSoup)
                IN /\ Throws(1 + Cardinality(noSoup) + Cardinality(dthrew))
                   /\ all_data' = all_data \o records
                   /\ visit' = [visit EXCEPT !.path = "fallback",
                                             !.dthrew = dthrew]
       \/ /\ ~cfg.bs
          /\ \E dthrew \in SUBSET DetailReads(data_rows.idx, Stale(data_rows),
                                              FALSE, {}) :
                LET records == PerRowRecords(CurPage, browser.opened \ dthrew,
                                             data_rows.idx, Stale(data_rows),
                                             FALSE, {})
                IN /\ Throws(Cardinality(dthrew))
                   /\ all_data' = all_data \o records
                   /\ visit' = [visit EXCEPT !.path = "fallback",
                                             !.dthrew = dthrew]
    /\ pc' = "advance"
    /\ UNCHANGED <<inputs, browser, page_num, page_done, data_rows, i, adv, run,
                   parsed, expanded, total_pages>>

\* the tail of one loop iteration: go_to_next_page, page_num += 1, the caps
\* (lines 806-820)
Advance ==
    /\ pc = "advance"
    /\ page_num < PageNumBound
    /\ \E throwing \in SUBSET {k \in 1..Len(NextCands) : NextCands[k] = "enabled"} :
          LET r == GoToNextPage(NextCands, throwing)
          IN /\ \A k \in throwing : r.hit = 0 \/ k < r.hit
             /\ Throws(Cardinality(throwing))
             /\ adv' = [n |-> adv.n + 1, cands |-> NextCands,
                        clicks |-> r.clicks, ok |-> r.hit # 0]
             /\ IF r.hit = 0
                THEN /\ pc' = "scrape_done"
                     /\ UNCHANGED <<browser, page_num>>
                ELSE /\ browser' = Navigated
                     /\ page_num' = page_num + 1
                     /\ pc' = IF ReachedMaxPages(page_num + 1)
                                 \/ ReachedHardCap(page_num + 1)
                              THEN "scrape_done" ELSE "page"
    /\ UNCHANGED <<inputs, all_data, page_done, data_rows, i, visit, run,
                   parsed, expanded, total_pages>>

\* scrape_all returns all_data; main binds it to data and tests "if data"
\* (lines 822-826, 1019-1022, 1031-1033)
ScrapeReturn ==
    /\ pc = "scrape_done"
    /\ run' = [run EXCEPT !.data = << all_data >>,
                          !.exit = IF all_data = << >> THEN "ok" ELSE @]
    /\ pc' = IF all_data = << >> THEN "finally" ELSE "display"
    /\ UNCHANGED <<inputs, browser, page_num, all_data, page_done, data_rows,
                   i, faults, visit, adv, parsed, expanded, total_pages>>

\* one export call of main that lets its exception escape: it receives data,
\* or throws, which main logs and re-raises after the finally block
ExportStep(at, next) ==
    /\ pc = at
    /\ \/ /\ run' = [run EXCEPT ![at] = run.data, !.tried = @ \cup {at}]
          /\ pc' = next
          /\ UNCHANGED faults
       \/ /\ Throws(1)
          /\ run' = [run EXCEPT !.exit = "exception", !.tried = @ \cup {at}]
          /\ pc' = "finally"
    /\ UNCHANGED <<inputs, browser, page_num, all_data, page_done, data_rows,
                   i, visit, adv, parsed, expanded, total_pages>>

DisplayTable == ExportStep("display", "csv")

\* row_copy = row.copy(); row_copy['source_links'] = '; '.join(...): the
\* row save_to_csv writes for a Record (lines 842-844)
CsvRow(rec) ==
    [rec EXCEPT !.source_links =
        JoinWith([k \in 1..Len(rec.source_links) |-> << rec.source_links[k] >>],
                 "; ")]

CsvRows(data) == [k \in 1..Len(data) |-> CsvRow(data[k])]

\* save_to_csv converting source_links in the Records themselves
SaveToCsvInPlace ==
    /\ pc = "csv"
    /\ \/ /\ run' = [run EXCEPT !.csv = run.data, !.tried = @ \cup {"csv"},
                                !.csvfile = CsvRows(run.data[1])]
          /\ all_data' = CsvRows(all_data)
          /\ pc' = "json"
          /\ UNCHANGED faults
       \/ /\ Throws(1)
          /\ run' = [run EXCEPT !.exit = "exception", !.tried = @ \cup {"csv"}]
          /\ pc' = "finally"
          /\ UNCHANGED all_data
    /\ UNCHANGED <<inputs, browser, page_num, page_done, data_rows, i, visit, adv,
                   parsed, expanded, total_pages>>

\* save_to_csv(data): writes a converted copy of every Record (lines 828-846),
\* or throws, which main logs and re-raises after the finally block
SaveToCsv ==
    /\ pc = "csv"
    /\ \/ /\ run' = [run EXCEPT !.csv = run.data, !.tried = @ \cup {"csv"},
                                !.csvfile = CsvRows(run.data[1])]
          /\ pc' = "json"
          /\ UNCHANGED faults
       \/ /\ Throws(1)
          /\ run' = [run EXCEPT !.exit = "exception", !.tried = @ \cup {"csv"}]
          /\ pc' = "finally"
    /\ UNCHANGED <<inputs, browser, page_num, all_data, page_done, data_rows,
                   i, visit, adv, parsed, expanded, total_pages>>

SaveToJson == ExportStep("json", "excel")

\* save_to_excel catches what its writer throws (lines 966-981); main then
\* logs "Done" and falls into the finally block
SaveToExcel ==
    /\ pc = "excel"
    /\ \/ /\ run' = [run EXCEPT !.excel = run.data, !.exit = "ok",
                                !.tried = @ \cup {"excel"}]
          /\ UNCHANGED faults
       \/ /\ Throws(1)
          /\ run' = [run EXCEPT !.exit = "ok", !.tried = @ \cup {"excel"}]
    /\ pc' = "finally"
    /\ UNCHANGED <<inputs, browser, page_num, all_data, page_done, data_rows,
                   i, visit, adv, parsed, expanded, total_pages>>

TryBlock == {"main", "scrape_start", "page", "soup_wait", "soup_expand", "fb_wait",
             "fb_expand", "fb_extract", "advance", "scrape_done", "display",
             "csv", "json", "excel"}

\* KeyboardInterrupt inside the try block of main: "except KeyboardInterrupt"
\* logs it and control falls into the finally block
Interrupt ==
    /\ pc \in TryBlock
    /\ run' = [run EXCEPT !.exit = "interrupt"]
    /\ pc' = "finally"
    /\ UNCHANGED <<inputs, browser, page_num, all_data, page_done, data_rows,
                   i, faults, visit, adv, parsed, expanded, total_pages>>

\* a finally block that releases the browser only when nothing was raised
MainCloseUnlessRaised ==
    /\ pc = "finally"
    /\ run' = [run EXCEPT !.closed = IF run.exit = "exception" THEN @ ELSE @ + 1]
    /\ pc' = "exit"
    /\ UNCHANGED <<inputs, browser, page_num, all_data, page_done, data_rows,
                   i, faults, visit, adv, parsed, expanded, total_pages>>

\* finally: scraper.close()
MainClose ==
    /\ pc = "finally"
    /\ run' = [run EXCEPT !.closed = @ + 1]
    /\ pc' = "exit"
    /\ UNCHANGED <<inputs, browser, page_num, all_data, page_done, data_rows,
                   i, faults, visit, adv, parsed, expanded, total_pages>>

\* main has ended; the exception caught by "except Exception" is re-raised
\* to the caller once the finally block is done (lines 1037-1041), the
\* KeyboardInterrupt caught at line 1035 is not
Ended == pc = "exit"

Propagated == Ended /\ run.exit = "exception"

ProgramStep ==
    \/ MainLogin
    \/ ScrapeStart
    \/ PageStart
    \/ SoupWait
    \/ SoupExpandRow
    \/ SoupParse
    \/ FallbackWait
    \/ FallbackExpandRow
    \/ FallbackExtract
    \/ Advance
    \/ ScrapeReturn
    \/ DisplayTable
    \/ SaveToCsv
    \/ SaveToJson
    \/ SaveToExcel
    \/ MainClose

Next == ProgramStep \/ Interrupt

Spec == Init /\ [][Next]_vars

SpecLogin == InitLogin /\ [][Next]_vars

SpecLoop == InitLoop /\ [][Next]_vars

\* the program is sequential: its next statement always runs
SpecLoopFair == InitLoop /\ [][Next]_vars /\ WF_vars(ProgramStep)

(***************************************************************************)
(* The pure functions on their own: the detail parser on every cell of up  *)
(* to MaxNodes nodes, get_total_pages on every pagination state.           *)
(***************************************************************************)
NodeLib ==
    { Node("b", << "Details" >>),
      Node("b", << "State", SP, "Status", COLON >>),
      Node("b", << "status", COLON, SP, "y" >>),
      Node("br", << >>),
      Node("str", << SP, "a", NL >>),
      Node("str", << QUOTE, "b", QUOTE >>),
      Node("tag", << "c", NL, QUOTE, "d" >>),
      Node("str", << "Details", SP, "e", COLON, "f" >>),
      Node("tag", << "status", COLON, "z" >>),
      Node("str", << "Details", SP, "status", COLON, "g" >>) }

Cells == UNION {[1..k -> NodeLib] : k \in 0..MaxNodes}

Paginations ==
    [el : {TRUE}, of : {<< n >> : n \in 0..MaxTotal}, buttons : 0..MaxButtons]
    \cup [el : BOOLEAN, of : {<< >>}, buttons : 0..MaxButtons]

IdleInputs ==
    /\ cfg = [expand_rows |-> TRUE, bs |-> TRUE, max_pages |-> << >>,
              credentials |-> FALSE]
    /\ env = [pages |-> << PageN >>, midNext |-> << >>, lastNext |-> << >>,
              rerender |-> FALSE, budget |-> 0, form |-> FullForm]

InitParse ==
    /\ pc = "parse"
    /\ cellIn \in Cells
    /\ rowIn = NoRowIn
    /\ pagination = [el |-> FALSE, of |-> << >>, buttons |-> 0]
    /\ IdleInputs
    /\ Constructed

\* the detail extraction of extract_row_data_from_soup applied to cellIn
ParseCell ==
    /\ pc = "parse"
    /\ parsed' = ParseDetails(cellIn)
    /\ pc' = "parsed"
    /\ UNCHANGED <<inputs, browser, page_num, all_data, page_done, data_rows, i,
                   faults, visit, adv, run, total_pages, expanded>>

SpecParse == InitParse /\ [][ParseCell]_vars

InitPages ==
    /\ pc = "pages"
    /\ pagination \in Paginations
    /\ cellIn = << >>
    /\ rowIn = NoRowIn
    /\ IdleInputs
    /\ Constructed

\* get_total_pages() applied to the pagination state
CountPages ==
    /\ pc = "pages"
    /\ total_pages' = << GetTotalPages(pagination) >>
    /\ pc' = "paged"
    /\ UNCHANGED <<inputs, browser, page_num, all_data, page_done, data_rows,
                   i, faults, visit, adv, run, parsed, expanded>>

SpecPages == InitPages /\ [][CountPages]_vars

(***************************************************************************)
(* expand_row on its own: every row of the library, fresh or stale, opened *)
(* or not, with every set of operations that throw.                        *)
(***************************************************************************)
ExpandInputs ==
    [row : {RowA, RowB, RowC, RowD, RowE, RowF, RowG, RowH}, stale : BOOLEAN,
     opened : BOOLEAN, ops : ExpandOps]

InitExpand ==
    /\ pc = "expand"
    /\ rowIn \in ExpandInputs
    /\ cellIn = << >>
    /\ pagination = [el |-> FALSE, of |-> << >>, buttons |-> 0]
    /\ IdleInputs
    /\ Constructed

\* expand_row(row_element) applied to rowIn
ExpandCall ==
    /\ pc = "expand"
    /\ expanded' = << ExpandRow(rowIn.row, rowIn.stale, rowIn.opened, rowIn.ops) >>
    /\ pc' = "expanded"
    /\ UNCHANGED <<inputs, browser, page_num, all_data, page_done, data_rows, i,
                   faults, visit, adv, run, parsed, total_pages>>

SpecExpand == InitExpand /\ [][ExpandCall]_vars

(***************************************************************************)
(* What the claims speak about.                                            *)
(***************************************************************************)
\* the records the page visit in progress has appended
Added == SubSeq(all_data, visit.start + 1, Len(all_data))

\* the data rows (tr.result) of the current page with an id and 3 or more cells
Eligible ==
    {k \in 1..Len(CurPage.rows) :
        /\ CurPage.rows[k].cls = "result"
        /\ CurPage.rows[k].id # ""
        /\ Len(CurPage.rows[k].cells) >= 3}

SiteRows == UNION {{env.pages[p].rows[k] : k \in 1..Len(env.pages[p].rows)} :
                      p \in 1..Len(env.pages)}

\* ids are unique in the sites above
RowOfId(id) == CHOOSE r \in SiteRows : r.id = id

AllDisabled(cands) == \A k \in 1..Len(cands) : cands[k] # "enabled"

AfterLoop == {"scrape_done", "display", "csv", "json", "excel", "finally", "exit"}

(***************************************************************************)
(* C1: when a page visit has run one of the two extraction paths, every    *)
(* data row of the page with a non-empty id and at least 3 cells has       *)
(* exactly one Record among those the visit appended.                      *)
(***************************************************************************)
C1_OneRecordPerRow ==
    (pc = "advance" /\ visit.path \in {"soup", "fallback"}) =>
        \A k \in Eligible :
            Cardinality({j \in 1..Len(Added) :
                            Added[j].row_id = CurPage.rows[k].id}) = 1

(***************************************************************************)
(* C2: every Record of all_data has a non-empty row_id and comes from a    *)
(* row with at least 3 cells; both extractors return None for a row of     *)
(* the current page that lacks an id or has fewer than 3 cells.            *)
(***************************************************************************)
C2_RecordsNeedIdAndCells ==
    /\ \A j \in 1..Len(all_data) :
          /\ all_data[j].row_id # ""
          /\ \E r \in SiteRows : r.id = all_data[j].row_id /\ Len(r.cells) >= 3
    /\ \A k \in 1..Len(CurPage.rows) :
          LET row == CurPage.rows[k]
          IN (row.id = "" \/ Len(row.cells) < 3) =>
                /\ ExtractRowDataFromSoup(row, row.detail) = NoRecord
                /\ \A soupOk \in BOOLEAN :
                      ExtractRowData(row, row.detail, FALSE, cfg.bs, soupOk) = NoRecord

C2_Witness ==
    /\ pc = "advance"
    /\ visit.path \in {"soup", "fallback"}
    /\ Len(Added) > 0
    /\ \E k \in 1..Len(CurPage.rows) :
          CurPage.rows[k].id # "" /\ Len(CurPage.rows[k].cells) < 3
    /\ \E p \in 1..Len(env.pages) : \E k \in 1..Len(env.pages[p].rows) :
          env.pages[p].rows[k].id = ""

(***************************************************************************)
(* C4: with a page cap k >= 1, scrape_all visits at most k pages, and with *)
(* max_pages = 1 the loop ends after exactly one page.                     *)
(***************************************************************************)
C4_AtMostMaxPages ==
    (cfg.max_pages # << >> /\ cfg.max_pages[1] >= 1) =>
        /\ visit.n <= cfg.max_pages[1]
        /\ (cfg.max_pages[1] = 1 /\ pc = "scrape_done") => visit.n = 1

C4_Witness ==
    /\ pc = "scrape_done"
    /\ cfg.max_pages = << 1 >>
    /\ total_pages = << 3 >>
    /\ adv.ok
    /\ visit.n = 1

(***************************************************************************)
(* C5: scrape_all never visits more than the hard cap of 20 pages.         *)
(***************************************************************************)
C5_AtMostHardCap == visit.n <= HardCap

C5_Witness ==
    /\ pc = "scrape_done"
    /\ cfg.max_pages = << >>
    /\ adv.ok
    /\ visit.n = HardCap

(***************************************************************************)
(* C6: the page loop of scrape_all always terminates: from the head of any *)
(* iteration the run reaches the return of all_data to main, unless the    *)
(* operator interrupts it first.                                           *)
(***************************************************************************)
C6_PageLoopTerminates ==
    (pc = "page") ~> (run.data = << all_data >> \/ run.exit = "interrupt")

C6_Witness ==
    /\ run.data = << all_data >>
    /\ run.exit # "interrupt"
    /\ adv.ok
    /\ visit.n = HardCap
    /\ visit.path = "failed"

(***************************************************************************)
(* C7: when no located next candidate is enabled, go_to_next_page          *)
(* dispatches no click and returns False; scrape_all then leaves the loop  *)
(* and returns the records accumulated so far.                             *)
(***************************************************************************)
C7_DisabledNextEndsLoop ==
    (adv.n > 0 /\ AllDisabled(adv.cands)) =>
        /\ adv.clicks = 0
        /\ ~adv.ok
        /\ pc \in AfterLoop
        /\ \/ run.data = << all_data >>
           \/ pc = "scrape_done"
           \/ run.exit = "interrupt" /\ run.data = << >>

C7_Witness ==
    /\ adv.n > 0
    /\ adv.cands # << >>
    /\ AllDisabled(adv.cands)
    /\ pc = "display"
    /\ run.data = << all_data >>

(***************************************************************************)
(* C10: when the run ends by an operator interrupt or an exception after   *)
(* records were accumulated, the CSV and JSON export steps have run on     *)
(* those records.                                                          *)
(***************************************************************************)
C10_ExportedOnFailure ==
    (pc = "exit" /\ run.exit \in {"interrupt", "exception"} /\ all_data # << >>) =>
        (run.csv = << all_data >> /\ run.json = << all_data >>)

(***************************************************************************)
(* C3: in the two-tier merge a non-empty structured details or             *)
(* state_status is the final value, and when both are non-empty the        *)
(* fallback does not run.                                                  *)
(***************************************************************************)
C3_FallbackKeepsStructured ==
    pc = "parsed" =>
        LET sd == StructuredDetails(cellIn)
            ss == StructuredStatus(cellIn)
        IN /\ sd # << >> => parsed.details = sd
           /\ ss # << >> => parsed.state_status = ss
           /\ (sd # << >> /\ ss # << >>) => ~parsed.ran

\* a cell whose structured details stand while the fallback, which reads the
\* details differently, supplies the missing status
C3_Witness ==
    /\ pc = "parsed"
    /\ parsed.ran
    /\ parsed.sd # << >>
    /\ parsed.ss = << >>
    /\ parsed.state_status # << >>
    /\ FallbackParts(cellIn).details_parts # << >>
    /\ JoinWith(FallbackParts(cellIn).details_parts, SP) # parsed.sd

(***************************************************************************)
(* C8: when the summary shows 'of N', get_total_pages returns the ceiling  *)
(* of N / 25: 12 for 300, 13 for 301.                                      *)
(***************************************************************************)
C8_CeilingOfTotal ==
    (pc = "paged" /\ pagination.el /\ pagination.of # << >>) =>
        LET n == pagination.of[1]
            k == total_pages[1]
        IN /\ k * 25 >= n
           /\ (k - 1) * 25 < n
           /\ n = 300 => k = 12
           /\ n = 301 => k = 13

C8_Witness ==
    /\ pc = "paged"
    /\ pagination.el
    /\ pagination.of = << 301 >>
    /\ total_pages = << 13 >>

(***************************************************************************)
(* C9 as stated: source_links has one entry per anchor of the source cell, *)
(* the anchor's href, in document order; it is empty for a 3-cell row.     *)
(***************************************************************************)
C9_OneEntryPerAnchor ==
    \A j \in 1..Len(all_data) :
        LET row == RowOfId(all_data[j].row_id)
            links == all_data[j].source_links
        IN IF Len(row.cells) > 3
           THEN /\ Len(links) = Len(row.anchors)
                /\ \A a \in 1..Len(links) : row.anchors[a] = << links[a] >>
           ELSE links = << >>

(***************************************************************************)
(* C9 amended: source_links has one entry per anchor of the source cell    *)
(* that carries an href, in document order, duplicates kept; an anchor     *)
(* without an href contributes nothing; it is empty for a 3-cell row.      *)
(***************************************************************************)
C9_LinksInDocumentOrder ==
    \A j \in 1..Len(all_data) :
        LET row == RowOfId(all_data[j].row_id)
            links == all_data[j].source_links
            withHref == {a \in 1..Len(row.anchors) : row.anchors[a] # << >>}
            Kth(n) == CHOOSE a \in withHref :
                          Cardinality({b \in withHref : b <= a}) = n
        IN IF Len(row.cells) > 3
           THEN /\ Len(links) = Cardinality(withHref)
                /\ \A n \in 1..Len(links) : row.anchors[Kth(n)] = << links[n] >>
           ELSE links = << >>

\* a Record whose row has an anchor without href and two anchors with the
\* same href, and a Record of a 3-cell row
C9_Witness ==
    /\ \E j \in 1..Len(all_data) :
          LET row == RowOfId(all_data[j].row_id)
              links == all_data[j].source_links
          IN /\ \E a \in 1..Len(row.anchors) : row.anchors[a] = << >>
             /\ \E a, b \in 1..Len(links) : a < b /\ links[a] = links[b]
    /\ \E j \in 1..Len(all_data) :
          Len(RowOfId(all_data[j].row_id).cells) = 3

(***************************************************************************)
(* C11: on every path out of main (normal completion, operator interrupt,  *)
(* unexpected exception in login, scraping or export) close() is called    *)
(* exactly once: never before main ends, once when it has ended; an        *)
(* exception reaches the caller only after close(), and an interrupt is    *)
(* not propagated.                                                         *)
(***************************************************************************)
C11_CloseExactlyOnce ==
    /\ run.closed = (IF Ended THEN 1 ELSE 0)
    /\ Propagated => run.closed = 1
    /\ run.exit = "interrupt" => ~Propagated
    /\ Ended => run.exit \in {"ok", "interrupt", "exception"}

\* an export step raised after login and scraping went through
C11_Witness ==
    /\ Propagated
    /\ run.got
    /\ run.data # << >>
    /\ run.csv = << >>
    /\ run.closed = 1

(***************************************************************************)
(* C12: when credentials are supplied and a required login element (email  *)
(* field, password field, submit button) cannot be located, login blocks   *)
(* on operator input before the page loop starts; without credentials the  *)
(* pause happens up front.  (No operation is made to throw here.)          *)
(***************************************************************************)
C12_PausesWhenElementMissing ==
    (pc = "scrape_start" /\ faults = 0) =>
        /\ ~cfg.credentials => run.paused = 1
        /\ (cfg.credentials /\ env.form # FullForm) => run.paused >= 1

(***************************************************************************)
(* C13 as stated: expand_row returns True exactly when it dispatched a     *)
(* click during the call, and for a row that already carries the 'opened'  *)
(* marker it dispatches no scroll and no click.                            *)
(***************************************************************************)
C13_TrueOnlyWhenClicked ==
    pc = "expanded" =>
        LET r == expanded[1]
        IN /\ r.ret <=> r.click # "none"
           /\ rowIn.opened => (~r.scrolled /\ r.click = "none")

(***************************************************************************)
(* C13 amended: expand_row returns True exactly when it read the 'opened'  *)
(* marker on the row or dispatched a click during the call; for a row that *)
(* already carries the marker it dispatches no scroll and no click.        *)
(***************************************************************************)
C13_TrueWhenOpenedOrClicked ==
    pc = "expanded" =>
        LET r == expanded[1]
        IN /\ r.ret <=> (r.click # "none" \/ (rowIn.opened /\ ~rowIn.stale))
           /\ rowIn.opened => (~r.scrolled /\ r.click = "none")

\* an opened row: True is returned and nothing was scrolled or clicked
C13_Witness ==
    /\ pc = "expanded"
    /\ rowIn.opened
    /\ ~rowIn.stale
    /\ expanded[1].ret
    /\ expanded[1].click = "none"
    /\ ~expanded[1].scrolled

(***************************************************************************)
(* C14: export is best-effort per format: once main holds records and is   *)
(* not interrupted, every export step (terminal display, CSV, JSON,        *)
(* spreadsheet) is attempted, whether or not another step failed.          *)
(***************************************************************************)
C14_EveryFormatAttempted ==
    (Ended /\ run.exit # "interrupt" /\ run.data # << >> /\ run.data[1] # << >>)
        => run.tried = {"display", "csv", "json", "excel"}

C16_StrategiesCascade ==
    (pc = "expanded" /\ ~rowIn.stale /\ ~rowIn.opened /\ "scroll" \notin rowIn.ops) =>
        LET r == expanded[1]
            hasCell == Len(rowIn.row.cells) > 0
            hasToggle == hasCell /\ rowIn.row.toggle = "visible"
            Tried(st) == r.click = st \/ st \in r.threw
            toggleFailed == ~hasToggle \/ "toggle" \in r.threw
            cellFailed == ~hasCell \/ "cell" \in r.threw
        IN /\ hasToggle => Tried("toggle")
           /\ (toggleFailed /\ hasCell) => Tried("cell")
           /\ (toggleFailed /\ cellFailed) => Tried("row")
           /\ r.click = "cell" => toggleFailed
           /\ r.click = "row" => (toggleFailed /\ cellFailed)
           /\ ~r.ret => (toggleFailed /\ cellFailed /\ "row" \in r.threw)

C18_InlineStatusPreferred ==
    (pc = "parsed" /\ FindBold(cellIn, "status:") # 0) =>
        LET b == FindBold(cellIn, "status:")
            inline == IF HasColon(cellIn[b].t)
                      THEN Strip(AfterColon(cellIn[b].t)) ELSE << >>
        IN IF inline # << >>
           THEN parsed.ss = inline
           ELSE parsed.ss = StatusSibling(SubSeq(cellIn, b + 1, Len(cellIn)))

(***************************************************************************)
(* C19: in structured extraction details is the space-joined sequence of   *)
(* every non-empty text fragment between the Details marker and the status *)
(* marker, in document order, line breaks excluded, surrounding quotes     *)
(* stripped from each fragment; a quoted fragment is included without its  *)
(* quotes, not dropped.                                                    *)
(***************************************************************************)
C19_DetailsKeepsEveryFragment ==
    (pc = "parsed" /\ FindBold(cellIn, "Details") # 0) =>
        LET b == FindBold(cellIn, "Details")
            RECURSIVE Fragments(_)
            Fragments(sibs) ==
                IF sibs = << >> THEN << >>
                ELSE LET n == Head(sibs)
                         text == Strip(n.t)
                     IN IF n.k = "b" /\ HasStatusColon(n.t) THEN << >>
                        ELSE IF n.k = "br" \/ text = << >>
                        THEN Fragments(Tail(sibs))
                        ELSE << StripQuotes(text) >> \o Fragments(Tail(sibs))
        IN parsed.sd = Strip(JoinWith(Fragments(SubSeq(cellIn, b + 1, Len(cellIn))), SP))

(***************************************************************************)
(* C20: a page whose extraction fails (the table wait times out, or an     *)
(* exception escapes the extraction) adds no Record, no exception leaves   *)
(* scrape_all, and go_to_next_page is still invoked for it: the loop goes  *)
(* on to the next page when that call succeeds and no cap is reached.      *)
(***************************************************************************)
C20_FailedPageStillAdvances ==
    (visit.path = "failed" /\ pc \in {"advance", "page", "scrape_done"}) =>
        /\ Added = << >>
        /\ run.exit = "none"
        /\ pc = "advance" => adv.n = visit.n - 1
        /\ pc \in {"page", "scrape_done"} => adv.n = visit.n
        /\ pc = "page" <=> (/\ adv.n = visit.n
                            /\ adv.ok
                            /\ ~ReachedMaxPages(page_num)
                            /\ ~ReachedHardCap(page_num))

\* the first page failed after an exception, the loop stands at the second
C20_Witness ==
    /\ pc = "page"
    /\ visit.path = "failed"
    /\ visit.n = 1
    /\ adv.n = 1
    /\ adv.ok
    /\ browser.cur = 2
    /\ env.pages[1].hasTable
    /\ faults > 0

(***************************************************************************)
(* C21: scrape_all uses no row handle that was fetched before an expand    *)
(* action once that action has run: when the fallback has read its rows    *)
(* through data_rows, data_rows was queried after the most recent          *)
(* expansion.  (The expansion loops re-query before each expand_row call,  *)
(* and the soup pass reads no handle.)                                     *)
(***************************************************************************)
C21_HandlesQueriedAfterExpansion ==
    (pc = "advance" /\ visit.path = "fallback" /\ data_rows.idx # << >>) =>
        QueriedAfterExpansion(data_rows)

(***************************************************************************)
(* C22 as stated: the fallback line classifier is a three-mode machine     *)
(* (none, details, status): a line before any marker goes to neither       *)
(* bucket; a line containing 'Details' while not in details mode enters    *)
(* details mode and is dropped; a line containing 'status:' enters status  *)
(* mode and contributes the text after its first colon; every other line   *)
(* goes to the bucket of the current mode; each bucket is joined with      *)
(* single spaces.                                                          *)
(***************************************************************************)
C22_ThreeModeClassifier ==
    (pc = "parsed" /\ parsed.ran) =>
        LET RECURSIVE Machine(_, _, _, _)
            Machine(mode, det, sta, lines) ==
                IF lines = << >> THEN [det |-> det, sta |-> sta]
                ELSE LET line == Head(lines)
                         rest == Tail(lines)
                     IN IF HasDetails(line) /\ mode # "details"
                        THEN Machine("details", det, sta, rest)
                        ELSE IF HasStatusColon(line)
                        THEN Machine("status", det,
                                     sta \o << Strip(AfterColon(line)) >>, rest)
                        ELSE IF mode = "details"
                        THEN Machine(mode, det \o << line >>, sta, rest)
                        ELSE IF mode = "status"
                        THEN Machine(mode, det, sta \o << line >>, rest)
                        ELSE Machine(mode, det, sta, rest)
            m == Machine("none", << >>, << >>, FallbackLines(cellIn))
        IN /\ JoinWith(parsed.fd, SP) = JoinWith(m.det, SP)
           /\ JoinWith(parsed.fs, SP) = JoinWith(m.sta, SP)

(***************************************************************************)
(* C22 amended: the same three-mode machine, with surrounding quote        *)
(* characters stripped from every fragment put into a bucket (the text     *)
(* after the colon of a 'status:' line and every other line).              *)
(***************************************************************************)
C22_ThreeModeClassifierStrippingQuotes ==
    (pc = "parsed" /\ parsed.ran) =>
        LET RECURSIVE Machine(_, _, _, _)
            Machine(mode, det, sta, lines) ==
                IF lines = << >> THEN [det |-> det, sta |-> sta]
                ELSE LET line == Head(lines)
                         rest == Tail(lines)
                     IN IF HasDetails(line) /\ mode # "details"
                        THEN Machine("details", det, sta, rest)
                        ELSE IF HasStatusColon(line)
                        THEN Machine("status", det,
                                     sta \o << StripQuotes(Strip(AfterColon(line))) >>,
                                     rest)
                        ELSE IF mode = "details"
                        THEN Machine(mode, det \o << StripQuotes(line) >>, sta, rest)
                        ELSE IF mode = "status"
                        THEN Machine(mode, det, sta \o << StripQuotes(line) >>, rest)
                        ELSE Machine(mode, det, sta, rest)
            m == Machine("none", << >>, << >>, FallbackLines(cellIn))
        IN /\ parsed.fd = m.det
           /\ parsed.fs = m.sta

\* a cell that takes the machine through its three modes: a line before any
\* marker, a quoted line in the details bucket, a status fragment
C22_Witness ==
    /\ pc = "parsed"
    /\ parsed.ran
    /\ FallbackLines(cellIn) # << >>
    /\ ~HasDetails(FallbackLines(cellIn)[1])
    /\ ~HasStatusColon(FallbackLines(cellIn)[1])
    /\ \E k \in 1..Len(FallbackLines(cellIn)) :
          /\ StartsWithQuote(FallbackLines(cellIn)[k])
          /\ \E j \in 1..Len(parsed.fd) :
                parsed.fd[j] = StripQuotes(FallbackLines(cellIn)[k])
    /\ parsed.fs # << >>

(***************************************************************************)
(* C23: all_data is append-only: at every step its previous contents are a *)
(* prefix of its new contents, the Records a step appends are rows of the  *)
(* page being visited, in row order, and the collection main holds and the *)
(* export steps read is the one scrape_all returned, unchanged.            *)
(***************************************************************************)
C23_AppendOnly ==
    [][LET old == Len(all_data)
           new == SubSeq(all_data', old + 1, Len(all_data'))
           Pos(rec) == CHOOSE k \in 1..Len(CurPage.rows) :
                           CurPage.rows[k].id = rec.row_id
       IN /\ Len(all_data') >= old
          /\ SubSeq(all_data', 1, old) = all_data
          /\ \A a \in 1..Len(new) :
                \E k \in 1..Len(CurPage.rows) : CurPage.rows[k].id = new[a].row_id
          /\ \A a, b \in 1..Len(new) : a < b => Pos(new[a]) < Pos(new[b])
          /\ run.data' # << >> => run.data'[1] = all_data'
          /\ run.data # << >> => run.data' = run.data]_vars

\* two pages were visited, each added Records, and the CSV step has written
\* rows that differ from the Records it read
C23_Witness ==
    /\ pc = "exit"
    /\ visit.n = 2
    /\ visit.start > 0
    /\ Len(all_data) > visit.start + 1
    /\ run.data = << all_data >>
    /\ run.csvfile # << >>
    /\ run.csvfile # all_data
    /\ run.excel = << all_data >>

(***************************************************************************)
(* C24: on every path from the start of main to the page loop, with or     *)
(* without credentials, the browser has been navigated to the target URL   *)
(* (driver.get has run) before scrape_all first waits for or queries the   *)
(* table.                                                                  *)
(***************************************************************************)
C24_NavigatedBeforeScrape ==
    pc \in {"scrape_start", "page", "soup_wait", "fb_wait"} => run.got

(***************************************************************************)
(* C25: scrape_all advances the browser only to pages it then processes:   *)
(* when the page loop has ended, no next-control click was dispatched for  *)
(* a page that is the last one a cap allows, and the number of successful  *)
(* advances (page_num - 1) is the number of pages processed minus one.     *)
(***************************************************************************)
C25_AdvancesOnlyToProcessedPages ==
    pc = "scrape_done" =>
        /\ (ReachedMaxPages(visit.n + 1) \/ ReachedHardCap(visit.n + 1))
              => (adv.n < visit.n \/ adv.clicks = 0)
        /\ page_num - 1 = visit.n - 1

(***************************************************************************)
(* C26: within one page visit expand_row is invoked at most once per row   *)
(* position, also when the soup pass fails to obtain the page after its    *)
(* expansion loop and the fallback runs for the same page.                 *)
(***************************************************************************)
C26_ExpandedAtMostOnce == visit.xagain = {}

====
